---- MODULE Spec2Model ----
(***************************************************************************)
(* A model of the stock forecasting server: the data-shaping functions of  *)
(* data_processor.py (split, min-max scaling, sliding windows, alignment   *)
(* of predictions on the raw timeline) and the session loop of server.py.  *)
(*                                                                         *)
(* Arrays are sequences; a Python index k is the TLA+ index k + 1.         *)
(* Scaled values and predictions are exact rationals [n, d] with d > 0;    *)
(* the record with d = 0 is NaN ("no value").                              *)
(***************************************************************************)
EXTENDS Integers, Sequences, FiniteSets, TLC

\* ------------------------------------------------------------------------
\* Program constants
\* ------------------------------------------------------------------------
WINDOW_SIZE == 10
HOLDOUT == 20

\* ------------------------------------------------------------------------
\* Bounds of the model
\* ------------------------------------------------------------------------
MaxN == 34
MaxMsgLen == 2
MaxSeqLen == 5
MaxW == 3
MaxVal == 2

\* ------------------------------------------------------------------------
\* Python and numpy primitives
\* ------------------------------------------------------------------------
\* A slice bound as Python normalises it against a length n.
Clamp(i, n) ==
  IF i < 0 THEN (IF i + n < 0 THEN 0 ELSE i + n)
  ELSE (IF i > n THEN n ELSE i)

\* s[lo:hi]
PySlice(s, lo, hi) ==
  LET a == Clamp(lo, Len(s))
      b == Clamp(hi, Len(s))
  IN IF b <= a THEN << >> ELSE SubSeq(s, a + 1, b)

\* range(n) as a sequence 0, 1, .., n-1 (empty when n <= 0)
PyRange(n) == IF n <= 0 THEN << >> ELSE [i \in 1..n |-> i - 1]

RECURSIVE SeqMin(_)
SeqMin(s) ==
  IF Len(s) = 1 THEN s[1]
  ELSE LET r == SeqMin(Tail(s)) IN IF s[1] < r THEN s[1] ELSE r

RECURSIVE SeqMax(_)
SeqMax(s) ==
  IF Len(s) = 1 THEN s[1]
  ELSE LET r == SeqMax(Tail(s)) IN IF s[1] > r THEN s[1] ELSE r

Abs(x) == IF x < 0 THEN 0 - x ELSE x

RECURSIVE GCD(_, _)
GCD(a, b) == IF b = 0 THEN a ELSE GCD(b, a % b)

\* Exact arithmetic on the floats of the pipeline.
NaN == [n |-> 0, d |-> 0]
IsNaN(r) == r.d = 0
RatNorm(n, d) ==
  IF n = 0 THEN [n |-> 0, d |-> 1]
  ELSE LET g == GCD(Abs(n), d) IN [n |-> n \div g, d |-> d \div g]
RatAdd(a, b) == RatNorm(a.n * b.d + b.n * a.d, a.d * b.d)
RatSub(a, b) == RatNorm(a.n * b.d - b.n * a.d, a.d * b.d)
RatMulInt(a, k) == RatNorm(a.n * k, a.d)

\* round(x): nearest integer, ties to the even one.
PyRound(r) ==
  LET q == r.n \div r.d
      twice == 2 * (r.n % r.d)
  IN IF twice < r.d THEN q
     ELSE IF twice > r.d THEN q + 1
     ELSE IF q % 2 = 0 THEN q ELSE q + 1

\* The characters of the byte values below 128 that the model sends.
Chr(b) ==
  CASE b = 65 -> "A" [] b = 97 -> "a" [] b = 103 -> "g"
    [] b = 112 -> "p" [] b = 118 -> "v" [] b = 120 -> "x"

\* str.upper(), character by character
UpperChar(c) ==
  CASE c = "a" -> "A" [] c = "g" -> "G" [] c = "p" -> "P"
    [] c = "v" -> "V" [] c = "x" -> "X" [] OTHER -> c
Upper(s) == [i \in 1..Len(s) |-> UpperChar(s[i])]

\* ------------------------------------------------------------------------
\* sklearn MinMaxScaler(feature_range=(0, 1)): the process-wide scaler
\* ------------------------------------------------------------------------
Unfitted == [fitted |-> FALSE, data_min |-> 0, data_max |-> 0]

\* data_range with zeros replaced by one (_handle_zeros_in_scale)
ScaleRange(sc) ==
  IF sc.data_max = sc.data_min THEN 1 ELSE sc.data_max - sc.data_min

\* fit(X): reset, then learn the bounds of X; zero samples raise.
MinMaxFit(sc, X) ==
  IF Len(X) = 0 THEN [exc |-> "ValueError", scaler |-> Unfitted]
  ELSE [exc |-> "none",
        scaler |-> [fitted |-> TRUE, data_min |-> SeqMin(X), data_max |-> SeqMax(X)]]

\* transform(X) = X * scale_ + min_ = (X - data_min) / range
MinMaxTransform(sc, X) ==
  IF ~sc.fitted THEN [exc |-> "NotFittedError", out |-> << >>]
  ELSE IF Len(X) = 0 THEN [exc |-> "ValueError", out |-> << >>]
  ELSE [exc |-> "none",
        out |-> [i \in 1..Len(X) |-> RatNorm(X[i] - sc.data_min, ScaleRange(sc))]]

\* inverse_transform(X) = (X - min_) / scale_ = X * range + data_min
MinMaxInverse(sc, X) ==
  IF ~sc.fitted THEN [exc |-> "NotFittedError", out |-> << >>]
  ELSE IF Len(X) = 0 THEN [exc |-> "ValueError", out |-> << >>]
  ELSE [exc |-> "none",
        out |-> [i \in 1..Len(X) |->
                   RatNorm(X[i].n * ScaleRange(sc) + sc.data_min * X[i].d, X[i].d)]]

\* ------------------------------------------------------------------------
\* data_processor.py
\* ------------------------------------------------------------------------
\* A stored csv: its Adj Close column, or a file pandas cannot turn into
\* the Date / Adj Close columns.
CsvFile(values) == [kind |-> "csv", values |-> values]
Malformed == [kind |-> "malformed", values |-> << >>]
NoFrame == [Date |-> << >>, AdjClose |-> << >>]

data_loader(filename, files) ==
  IF filename \notin DOMAIN files
  THEN [exc |-> "FileNotFoundError", df |-> NoFrame, dataset |-> << >>]
  ELSE IF files[filename].kind # "csv"
  THEN [exc |-> "DataLoadError", df |-> NoFrame, dataset |-> << >>]
  ELSE LET v == files[filename].values
       IN [exc |-> "none",
           df |-> [Date |-> [i \in 1..Len(v) |-> i], AdjClose |-> v],
           dataset |-> [i \in 1..Len(v) |-> <<i, v[i]>>]]

train_test_split(df, dataset) ==
  LET trainingRange == Len(dataset) - HOLDOUT
      train == PySlice(df.AdjClose, 0, trainingRange)
      test == PySlice(df.AdjClose, trainingRange, Len(df.AdjClose))
  IN <<train, test>>

\* str.lower() of an action: every spelling of "fit" and of "inverse" in
\* upper and lower case letters lowers to that word; no other string lowers
\* to either, and such a string stands for its own lower case.
FitSpellings ==
  {"fit", "fiT", "fIt", "fIT", "Fit", "FiT", "FIt", "FIT"}
InverseSpellings ==
  {"inverse", "inversE", "inverSe", "inverSE", "inveRse", "inveRsE",
   "inveRSe", "inveRSE", "invErse", "invErsE", "invErSe", "invErSE",
   "invERse", "invERsE", "invERSe", "invERSE", "inVerse", "inVersE",
   "inVerSe", "inVerSE", "inVeRse", "inVeRsE", "inVeRSe", "inVeRSE",
   "inVErse", "inVErsE", "inVErSe", "inVErSE", "inVERse", "inVERsE",
   "inVERSe", "inVERSE", "iNverse", "iNversE", "iNverSe", "iNverSE",
   "iNveRse", "iNveRsE", "iNveRSe", "iNveRSE", "iNvErse", "iNvErsE",
   "iNvErSe", "iNvErSE", "iNvERse", "iNvERsE", "iNvERSe", "iNvERSE",
   "iNVerse", "iNVersE", "iNVerSe", "iNVerSE", "iNVeRse", "iNVeRsE",
   "iNVeRSe", "iNVeRSE", "iNVErse", "iNVErsE", "iNVErSe", "iNVErSE",
   "iNVERse", "iNVERsE", "iNVERSe", "iNVERSE", "Inverse", "InversE",
   "InverSe", "InverSE", "InveRse", "InveRsE", "InveRSe", "InveRSE",
   "InvErse", "InvErsE", "InvErSe", "InvErSE", "InvERse", "InvERsE",
   "InvERSe", "InvERSE", "InVerse", "InVersE", "InVerSe", "InVerSE",
   "InVeRse", "InVeRsE", "InVeRSe", "InVeRSE", "InVErse", "InVErsE",
   "InVErSe", "InVErSE", "InVERse", "InVERsE", "InVERSe", "InVERSE",
   "INverse", "INversE", "INverSe", "INverSE", "INveRse", "INveRsE",
   "INveRSe", "INveRSE", "INvErse", "INvErsE", "INvErSe", "INvErSE",
   "INvERse", "INvERsE", "INvERSe", "INvERSE", "INVerse", "INVersE",
   "INVerSe", "INVerSE", "INVeRse", "INVeRsE", "INVeRSe", "INVeRSE",
   "INVErse", "INVErsE", "INVErSe", "INVErSE", "INVERse", "INVERsE",
   "INVERSe", "INVERSE"}
PyLower(s) ==
  IF s \in FitSpellings THEN "fit"
  ELSE IF s \in InverseSpellings THEN "inverse"
  ELSE s

data_scaler(action, train, test, sc) ==
  IF PyLower(action) = "fit"
  THEN LET f == MinMaxFit(sc, train) IN
       IF f.exc # "none"
       THEN [exc |-> f.exc, scaler |-> f.scaler, train_scaled |-> << >>, test_scaled |-> << >>]
       ELSE LET a == MinMaxTransform(f.scaler, train)
                b == MinMaxTransform(f.scaler, test)
            IN IF b.exc # "none"
               THEN [exc |-> b.exc, scaler |-> f.scaler,
                     train_scaled |-> << >>, test_scaled |-> << >>]
               ELSE [exc |-> "none", scaler |-> f.scaler,
                     train_scaled |-> a.out, test_scaled |-> b.out]
  ELSE IF PyLower(action) = "inverse"
  THEN LET a == MinMaxInverse(sc, train) IN
       IF a.exc # "none"
       THEN [exc |-> a.exc, scaler |-> sc, train_scaled |-> << >>, test_scaled |-> << >>]
       ELSE LET b == MinMaxInverse(sc, test) IN
            IF b.exc # "none"
            THEN [exc |-> b.exc, scaler |-> sc, train_scaled |-> << >>, test_scaled |-> << >>]
            ELSE [exc |-> "none", scaler |-> sc,
                  train_scaled |-> a.out, test_scaled |-> b.out]
  ELSE [exc |-> "UnboundLocalError", scaler |-> sc,
        train_scaled |-> << >>, test_scaled |-> << >>]

\* A call binds its positional arguments to the three parameters first.
data_scaler_call(args, sc) ==
  IF Len(args) # 3
  THEN [exc |-> "TypeError", scaler |-> sc, train_scaled |-> << >>, test_scaled |-> << >>]
  ELSE data_scaler(args[1], args[2], args[3], sc)

\* Variant: range(len(data) - window_size), which also takes the last element
\* as a target.
to_sequences_full(data, window_size) ==
  LET r == PyRange(Len(data) - window_size)
  IN << [j \in 1..Len(r) |-> PySlice(data, r[j], r[j] + window_size)],
        [j \in 1..Len(r) |-> data[r[j] + window_size + 1]] >>

to_sequences(data, window_size) ==
  LET r == PyRange(Len(data) - window_size - 1)
  IN << [j \in 1..Len(r) |-> PySlice(data, r[j], r[j] + window_size)],
        [j \in 1..Len(r) |-> data[r[j] + window_size + 1]] >>

\* np.reshape(X, (X.shape[0], X.shape[1], 1)) needs a second axis, which
\* np.array([]) does not have.
generate_sets(train_scaled, test_scaled) ==
  LET a == to_sequences(train_scaled, WINDOW_SIZE)
      b == to_sequences(test_scaled, WINDOW_SIZE)
  IN IF Len(a[1]) = 0 \/ Len(b[1]) = 0
     THEN [exc |-> "IndexError", X_train |-> << >>, Y_train |-> << >>,
           X_test |-> << >>, Y_test |-> << >>]
     ELSE [exc |-> "none", X_train |-> a[1], Y_train |-> a[2],
           X_test |-> b[1], Y_test |-> b[2]]

\* The regressor: training is not reproducible, so the trained weights are
\* an input; predict is a fixed function of the weights and the window.
build_model(X_train, Y_train, m) == [w |-> m]

predict(model, X) ==
  [i \in 1..Len(X) |->
     LET win == X[i] IN
     RatAdd(win[Len(win)], RatMulInt(RatSub(win[Len(win)], win[1]), model.w))]

\* a[lo:hi, :] = vals, vals of shape (k, 1): k must be the slice length or 1.
SliceLen(n, lo, hi) ==
  IF Clamp(hi, n) > Clamp(lo, n) THEN Clamp(hi, n) - Clamp(lo, n) ELSE 0

SetSlice(a, lo, hi, vals) ==
  LET s == Clamp(lo, Len(a))
      l == SliceLen(Len(a), lo, hi)
  IN [j \in 1..Len(a) |->
        IF j > s /\ j <= s + l
        THEN (IF Len(vals) = 1 THEN <<vals[1], vals[1]>> ELSE <<vals[j - s], vals[j - s]>>)
        ELSE a[j]]

SliceFits(a, lo, hi, vals) ==
  Len(vals) = 1 \/ Len(vals) = SliceLen(Len(a), lo, hi)

NanLike(dataset) == [j \in 1..Len(dataset) |-> <<NaN, NaN>>]

NoPlots(e, sc) ==
  [exc |-> e, scaler |-> sc, train_predict_plot |-> << >>, test_predict_plot |-> << >>]

graph_format(dataset, train_predict, test_predict, sc) ==
  LET inv == data_scaler("inverse", train_predict, test_predict, sc) IN
  IF inv.exc # "none" THEN NoPlots(inv.exc, sc)
  ELSE IF Len(dataset) = 0 THEN NoPlots("IndexError", sc)
  ELSE LET tp == inv.train_scaled
           sp == inv.test_scaled
           lo1 == WINDOW_SIZE
           hi1 == Len(tp) + WINDOW_SIZE
           lo2 == Len(tp) + (WINDOW_SIZE * 2) + 1
           hi2 == Len(dataset) - 1
       IN IF ~SliceFits(NanLike(dataset), lo1, hi1, tp) THEN NoPlots("ValueError", sc)
          ELSE IF ~SliceFits(NanLike(dataset), lo2, hi2, sp) THEN NoPlots("ValueError", sc)
          ELSE [exc |-> "none", scaler |-> sc,
                train_predict_plot |-> SetSlice(NanLike(dataset), lo1, hi1, tp),
                test_predict_plot |-> SetSlice(NanLike(dataset), lo2, hi2, sp)]

\* The bytes of imgFile.png: the figure of the two aligned series.
Image(train_predict_plot, test_predict_plot) ==
  [kind |-> "bytes", text |-> "imgFile.png", num |-> 0,
   train |-> train_predict_plot, test |-> test_predict_plot]

\* graph_data has four parameters (df, train_predict_plot, test_predict_plot,
\* tkr); when bound it draws the two series and writes imgFile.png.
graph_data_call(args) ==
  IF Len(args) # 4
  THEN [exc |-> "TypeError", img |-> Image(<< >>, << >>)]
  ELSE [exc |-> "none", img |-> Image(args[2], args[3])]

\* ------------------------------------------------------------------------
\* server.py: handlers
\* ------------------------------------------------------------------------
Payload(kind, text, num) == [kind |-> kind, text |-> text, num |-> num]
NoPayload == Payload("none", "", 0)
EncodeText(t) == Payload("utf8", t, 0)

NoModel == [saved |-> FALSE, w |-> 0]
NoDf == [src |-> "none", frame |-> NoFrame]

\* What a handler leaves behind: the exception it raised (or "none"), its
\* return value, and the process-wide df, scaler and model.h5 after it.
Outcome(e, ret, d, sc, mf) ==
  [exc |-> e, ret |-> ret, df |-> d, scaler |-> sc, modelFile |-> mf]

DatasetPath(tkr) == Upper(tkr)

\* fetched = "ok" when web.DataReader returns, "fail" when it raises.
\* Variant: no try/except around the fetch.
validate_tkr_nocatch(tkr, fetched, d, sc, mf) ==
  IF fetched = "ok"
  THEN Outcome("none", "success", [src |-> "web", frame |-> NoFrame], sc, mf)
  ELSE Outcome("RemoteDataError", "", d, sc, mf)

validate_tkr(tkr, fetched, d, sc, mf) ==
  IF fetched = "ok"
  THEN Outcome("none", "success", [src |-> "web", frame |-> NoFrame], sc, mf)
  ELSE Outcome("none", "error", d, sc, mf)

\* The columns web.DataReader returns, and those gather_data drops.
YahooColumns == {"High", "Low", "Open", "Close", "Volume", "Adj Close"}
DroppedColumns == {"High", "Low", "Open", "Close", "Volume"}

\* A frame fetched from the web: its columns and its Adj Close values.
WebFrame(cols, rows) ==
  [src |-> "web", cols |-> cols,
   frame |-> [Date |-> [i \in 1..Len(rows) |-> i],
              AdjClose |-> IF "Adj Close" \in cols THEN rows ELSE << >>]]

\* The csv to_csv writes of a frame: one that data_loader can read when the
\* frame has an Adj Close column.
WrittenCsv(d) ==
  IF "Adj Close" \in d.cols THEN CsvFile(d.frame.AdjClose) ELSE Malformed

\* gather_data, statement by statement: the long-range fetch rebinds df
\* (a failing fetch propagates and leaves df alone); drop rebinds df again,
\* or raises KeyError when one of the five columns is missing; to_csv writes
\* 'datasets/' + tkr + '.csv', or raises when there is no datasets
\* directory. An exception after the fetch leaves df rebound and no file
\* written. Nothing in server.py calls it.
gather_data(tkr, fetched, d, files, dir) ==
  IF ~fetched.ok
  THEN [exc |-> "RemoteDataError", df |-> d, files |-> files]
  ELSE IF ~(DroppedColumns \subseteq fetched.cols)
  THEN [exc |-> "KeyError", df |-> WebFrame(fetched.cols, fetched.rows), files |-> files]
  ELSE IF ~dir
  THEN [exc |-> "FileNotFoundError",
        df |-> WebFrame(fetched.cols \ DroppedColumns, fetched.rows), files |-> files]
  ELSE [exc |-> "none",
        df |-> WebFrame(fetched.cols \ DroppedColumns, fetched.rows),
        files |-> [name \in DOMAIN files \cup {tkr} |->
                     IF name = tkr
                     THEN WrittenCsv(WebFrame(fetched.cols \ DroppedColumns, fetched.rows))
                     ELSE files[name]]]

\* Bind(e, F) is F(e) with e evaluated once: the statement "x = e" followed
\* by the statements F that read x.
Bind(e, F(_)) == CHOOSE y \in {F(x) : x \in {e}} : TRUE

make_g(tkr, files, d, sc, mf, m) ==
  Bind(data_loader(DatasetPath(tkr), files), LAMBDA l :
  IF l.exc # "none" THEN Outcome(l.exc, NoPayload, d, sc, mf) ELSE
  Bind([src |-> "csv", frame |-> l.df], LAMBDA d1 :
  Bind(train_test_split(l.df, l.dataset), LAMBDA s :
  Bind(data_scaler_call(<<s[1], s[2]>>, sc), LAMBDA scl :
  IF scl.exc # "none" THEN Outcome(scl.exc, NoPayload, d1, scl.scaler, mf) ELSE
  Bind(generate_sets(scl.train_scaled, scl.test_scaled), LAMBDA gs :
  IF gs.exc # "none" THEN Outcome(gs.exc, NoPayload, d1, scl.scaler, mf) ELSE
  Bind(build_model(gs.X_train, gs.Y_train, m), LAMBDA model :
  Bind([saved |-> TRUE, w |-> model.w], LAMBDA mf1 :
  Bind(predict(model, gs.X_train), LAMBDA train_predict :
  Bind(predict(model, gs.X_test), LAMBDA test_predict :
  Bind(graph_format(l.dataset, train_predict, test_predict, scl.scaler), LAMBDA gf :
  IF gf.exc # "none" THEN Outcome(gf.exc, NoPayload, d1, gf.scaler, mf1) ELSE
  Bind(graph_data_call(<<l.df, gf.train_predict_plot, gf.test_predict_plot>>), LAMBDA gd :
  IF gd.exc # "none" THEN Outcome(gd.exc, NoPayload, d1, gf.scaler, mf1)
  ELSE Outcome("none", gd.img, d1, gf.scaler, mf1)
  )))))))))))

make_p(tkr, files, d, sc, mf) ==
  Bind(data_loader(DatasetPath(tkr), files), LAMBDA l :
  IF l.exc # "none" THEN Outcome(l.exc, NoPayload, d, sc, mf) ELSE
  Bind([src |-> "csv", frame |-> l.df], LAMBDA d1 :
  Bind(train_test_split(l.df, l.dataset), LAMBDA s :
  Bind(data_scaler_call(<<s[1], s[2]>>, sc), LAMBDA scl :
  IF scl.exc # "none" THEN Outcome(scl.exc, NoPayload, d1, scl.scaler, mf) ELSE
  Bind(generate_sets(scl.train_scaled, scl.test_scaled), LAMBDA gs :
  IF gs.exc # "none" THEN Outcome(gs.exc, NoPayload, d1, scl.scaler, mf) ELSE
  IF ~mf.saved THEN Outcome("OSError", NoPayload, d1, scl.scaler, mf) ELSE
  Bind([w |-> mf.w], LAMBDA model :
  Bind(predict(model, gs.X_train), LAMBDA train_predict :
  Bind(predict(model, gs.X_test), LAMBDA test_predict :
  Bind(graph_format(l.dataset, train_predict, test_predict, scl.scaler), LAMBDA gf :
  IF gf.exc # "none" THEN Outcome(gf.exc, NoPayload, d1, gf.scaler, mf) ELSE
  Bind(gf.test_predict_plot, LAMBDA plot :
  IF Len(plot) < 2 THEN Outcome("IndexError", NoPayload, d1, gf.scaler, mf) ELSE
  Bind(plot[Len(plot) - 1][1], LAMBDA prediction :
  IF IsNaN(prediction) THEN Outcome("ValueError", NoPayload, d1, gf.scaler, mf)
  ELSE Outcome("none", Payload("utf8", "$", PyRound(prediction)), d1, gf.scaler, mf)
  )))))))))))

\* ------------------------------------------------------------------------
\* Inputs
\* ------------------------------------------------------------------------
\* A, a, g, p, v, x and a byte that no UTF-8 text contains
Bytes == {65, 97, 103, 112, 118, 120, 255}
Messages == UNION {[1..n -> Bytes] : n \in 0..MaxMsgLen}
Models == {0, 1}
Shapes == {0, 1, 2}
FetchResults == {"ok", "fail"}

\* The first length the whole pipeline accepts: train needs WINDOW_SIZE + 2.
MinLen == HOLDOUT + WINDOW_SIZE + 2

Series(n, k) ==
  [i \in 1..n |-> IF k = 0 THEN 7
                  ELSE IF k = 1 THEN 3 * i + 10
                  ELSE 40 + ((i * i) % 11) - (i % 3)]

StoredFiles ==
  {Malformed} \cup {CsvFile(Series(n, 1)) : n \in {0, HOLDOUT, MinLen}}
Disks == {<< >>} \cup {[name \in {<<"A">>} |-> f] : f \in StoredFiles}
RunFiles ==
  {Malformed} \cup {CsvFile(Series(n, k)) : n \in 0..MaxN, k \in Shapes}
RunDisks == {<< >>} \cup {[name \in {<<"A">>} |-> f] : f \in RunFiles}
RunTickers == {<<"A">>, <<"a">>}

\* The datasets directory exists whenever it holds a file.
DirStates(fs) == IF DOMAIN fs = {} THEN BOOLEAN ELSE {TRUE}

\* What the long-range fetch gives: it raises, or returns a frame with all
\* the columns, or with some of them.
ColumnSets == {YahooColumns, {"Close", "Adj Close"}, DroppedColumns}
Fetches ==
  {[ok |-> FALSE, cols |-> {}, rows |-> << >>]}
  \cup {[ok |-> TRUE, cols |-> c, rows |-> Series(n, k)] :
          c \in ColumnSets, n \in 0..MaxN, k \in Shapes}
ModelFiles == {NoModel} \cup {[saved |-> TRUE, w |-> m] : m \in Models}

\* ------------------------------------------------------------------------
\* State
\* ------------------------------------------------------------------------
VARIABLES
  pc,          \* session loop: "listening", "connected", "crashed"
  msg,         \* bytes read from the current connection
  handled,     \* the current connection has been dispatched
  sent,        \* payloads sent on the current connection
  exc,         \* exception that left the loop, or "none"
  fetch,       \* result of web.DataReader in this request, or "none"
  df,          \* server.df
  files,       \* datasets/<name>.csv
  datasetsDir, \* the datasets directory exists
  modelFile,   \* model.h5
  scaler,      \* data_processor.scaler
  stage,       \* function body: the statement reached, or "crashed"
  pexc,        \* exception that left the function body, or "none"
  dataset,     \* handler local: data_loader's (Date, Adj Close) list
  split,       \* handler locals: <<train, test>>
  scaled,      \* handler locals: <<train_scaled, test_scaled>>
  seqData,     \* to_sequences run: data
  seqW,        \* to_sequences run: window_size
  seqOut       \* to_sequences run: result once applied

serverVars == <<pc, msg, handled, sent, exc, fetch, df, files, datasetsDir, modelFile>>
pipeVars == <<stage, pexc, dataset, split, scaled>>
seqVars == <<seqData, seqW, seqOut>>
vars == <<serverVars, scaler, pipeVars, seqVars>>

\* ------------------------------------------------------------------------
\* server.py: session loop
\* ------------------------------------------------------------------------
\* bytes.decode('UTF-8'): bytes 0xF8..0xFF occur in no UTF-8 text; a byte
\* below 0x80 is the character with that code.
Undecodable(m) == \E i \in 1..Len(m) : m[i] >= 248
Decode(m) == [i \in 1..Len(m) |-> Chr(m[i])]

Ending(m) == PySlice(Decode(m), Len(Decode(m)) - 1, Len(Decode(m)))
Ticker(m) == PySlice(Decode(m), 0, Len(Decode(m)) - 1)

TagV == <<"v">>
TagG == <<"g">>
TagP == <<"p">>

ServerIdle ==
  /\ pc = "listening"
  /\ msg = << >>
  /\ handled = FALSE
  /\ sent = << >>
  /\ exc = "none"
  /\ fetch = "none"
  /\ df = NoDf

PipeIdle ==
  /\ stage = "idle"
  /\ pexc = "none"
  /\ dataset = << >>
  /\ split = << << >>, << >> >>
  /\ scaled = << << >>, << >> >>

SeqIdle ==
  /\ seqData = << >>
  /\ seqW = 0
  /\ seqOut = [done |-> FALSE, exc |-> "none", X |-> << >>, y |-> << >>]

Init ==
  /\ ServerIdle
  /\ files \in Disks
  /\ datasetsDir \in DirStates(files)
  /\ modelFile \in ModelFiles
  /\ scaler = Unfitted
  /\ PipeIdle
  /\ SeqIdle

\* accept() and recv(2048)
Accept ==
  /\ pc = "listening"
  /\ \E m \in Messages : msg' = m
  /\ pc' = "connected"
  /\ handled' = FALSE
  /\ sent' = << >>
  /\ fetch' = "none"
  /\ UNCHANGED <<exc, df, files, datasetsDir, modelFile, scaler, pipeVars, seqVars>>

\* An exception in the loop body ends the process; otherwise the handler's
\* return value is sent and the loop goes back to accept.
Finish(r, payload) ==
  /\ handled' = TRUE
  /\ df' = r.df
  /\ scaler' = r.scaler
  /\ modelFile' = r.modelFile
  /\ exc' = r.exc
  /\ IF r.exc # "none"
     THEN pc' = "crashed" /\ sent' = sent
     ELSE pc' = "listening" /\ sent' = Append(sent, payload)
  /\ UNCHANGED <<msg, files, datasetsDir, pipeVars, seqVars>>

DecodeError ==
  /\ pc = "connected"
  /\ Undecodable(msg)
  /\ pc' = "crashed"
  /\ exc' = "UnicodeDecodeError"
  /\ handled' = TRUE
  /\ UNCHANGED <<msg, sent, fetch, df, files, datasetsDir, modelFile, scaler, pipeVars, seqVars>>

HandleV ==
  /\ pc = "connected"
  /\ ~Undecodable(msg)
  /\ Ending(msg) = TagV
  /\ \E f \in FetchResults :
       /\ fetch' = f
       /\ \E r \in {validate_tkr(Ticker(msg), f, df, scaler, modelFile)} :
            Finish(r, EncodeText(r.ret))

HandleG ==
  /\ pc = "connected"
  /\ ~Undecodable(msg)
  /\ Ending(msg) = TagG
  /\ \E m \in Models :
       \E r \in {make_g(Ticker(msg), files, df, scaler, modelFile, m)} :
         Finish(r, r.ret)
  /\ UNCHANGED fetch

HandleP ==
  /\ pc = "connected"
  /\ ~Undecodable(msg)
  /\ Ending(msg) = TagP
  /\ \E r \in {make_p(Ticker(msg), files, df, scaler, modelFile)} :
       Finish(r, r.ret)
  /\ UNCHANGED fetch

\* No branch of the if/elif chain matches: nothing is sent.
HandleOther ==
  /\ pc = "connected"
  /\ ~Undecodable(msg)
  /\ Ending(msg) \notin {TagV, TagG, TagP}
  /\ pc' = "listening"
  /\ handled' = TRUE
  /\ UNCHANGED <<msg, sent, exc, fetch, df, files, datasetsDir, modelFile, scaler, pipeVars, seqVars>>

Next == Accept \/ DecodeError \/ HandleV \/ HandleG \/ HandleP \/ HandleOther

Spec == Init /\ [][Next]_vars

\* ------------------------------------------------------------------------
\* The body of make_g and of make_p, statement by statement. Both begin
\* with data_loader, train_test_split and data_scaler(train, test); an
\* exception leaves the handler and, uncaught by the session loop, ends the
\* process.
\* ------------------------------------------------------------------------
PipeInit ==
  /\ ServerIdle
  /\ files \in RunDisks
  /\ datasetsDir \in DirStates(files)
  /\ modelFile = NoModel
  /\ scaler = Unfitted
  /\ PipeIdle
  /\ SeqIdle

PipeStep(next) ==
  /\ stage' = next
  /\ UNCHANGED <<pc, msg, handled, sent, exc, fetch, files, datasetsDir, modelFile, seqVars>>

PipeFail(e) ==
  /\ pexc' = e
  /\ PipeStep("crashed")

\* df, dataset = data_loader(f'datasets/{tkr.upper()}.csv')
PipeLoad ==
  /\ stage = "idle"
  /\ \E tkr \in RunTickers :
       \E l \in {data_loader(DatasetPath(tkr), files)} :
         IF l.exc # "none"
         THEN PipeFail(l.exc) /\ UNCHANGED <<df, dataset>>
         ELSE /\ df' = [src |-> "csv", frame |-> l.df]
              /\ dataset' = l.dataset
              /\ PipeStep("loaded")
              /\ UNCHANGED pexc
  /\ UNCHANGED <<scaler, split, scaled>>

\* train, test = train_test_split(df, dataset)
PipeSplit ==
  /\ stage = "loaded"
  /\ split' = train_test_split(df.frame, dataset)
  /\ PipeStep("split")
  /\ UNCHANGED <<scaler, df, pexc, dataset, scaled>>

\* train_scaled, test_scaled = data_scaler(train, test)
PipeScale ==
  /\ stage = "split"
  /\ \E r \in {data_scaler_call(<<split[1], split[2]>>, scaler)} :
       /\ scaler' = r.scaler
       /\ IF r.exc # "none"
          THEN PipeFail(r.exc) /\ UNCHANGED scaled
          ELSE /\ scaled' = <<r.train_scaled, r.test_scaled>>
               /\ PipeStep("scaled")
               /\ UNCHANGED pexc
  /\ UNCHANGED <<df, dataset, split>>

PipeNext == PipeLoad \/ PipeSplit \/ PipeScale

PipeSpec == PipeInit /\ [][PipeNext]_vars

\* ------------------------------------------------------------------------
\* gather_data called once, on any disk, with any result of its fetch
\* ------------------------------------------------------------------------
GatherInit ==
  /\ ServerIdle
  /\ files \in Disks
  /\ datasetsDir \in DirStates(files)
  /\ modelFile = NoModel
  /\ scaler = Unfitted
  /\ PipeIdle
  /\ SeqIdle

ApplyGather ==
  /\ stage = "idle"
  /\ \E tkr \in RunTickers, f \in Fetches :
       \E r \in {gather_data(tkr, f, df, files, datasetsDir)} :
         /\ df' = r.df
         /\ files' = r.files
         /\ pexc' = r.exc
         /\ stage' = IF r.exc = "none" THEN "returned" ELSE "crashed"
  /\ UNCHANGED <<pc, msg, handled, sent, exc, fetch, datasetsDir, modelFile,
                 scaler, dataset, split, scaled, seqVars>>

GatherNext == ApplyGather

GatherSpec == GatherInit /\ [][GatherNext]_vars

\* ------------------------------------------------------------------------
\* to_sequences applied to a flat sequence and a window size
\* ------------------------------------------------------------------------
FlatSeqs == UNION {[1..n -> 0..MaxVal] : n \in 0..MaxSeqLen}

SeqInit ==
  /\ ServerIdle
  /\ files = << >>
  /\ datasetsDir = FALSE
  /\ modelFile = NoModel
  /\ scaler = Unfitted
  /\ PipeIdle
  /\ seqData \in FlatSeqs
  /\ seqW \in 0..MaxW
  /\ seqOut = [done |-> FALSE, exc |-> "none", X |-> << >>, y |-> << >>]

ApplyToSequences ==
  /\ ~seqOut.done
  /\ \E r \in {to_sequences(seqData, seqW)} :
       seqOut' = [done |-> TRUE, exc |-> "none", X |-> r[1], y |-> r[2]]
  /\ UNCHANGED <<serverVars, scaler, pipeVars, seqData, seqW>>

SeqNext == ApplyToSequences

SeqSpec == SeqInit /\ [][SeqNext]_vars

\* ========================================================================
\* Properties
\* ========================================================================
\* The request now handled (or last handled) has this tag.
Request(tag) == handled /\ ~Undecodable(msg) /\ Ending(msg) = tag

\* The ticker of the request names a stored series that loads.
SeriesLoads ==
  /\ DatasetPath(Ticker(msg)) \in DOMAIN files
  /\ files[DatasetPath(Ticker(msg))].kind = "csv"
StoredValues == files[DatasetPath(Ticker(msg))].values

\* A message that is no command: shorter than 2 bytes, or ending in a byte
\* other than v, g, p.
Unrecognized(m) == Len(m) < 2 \/ m[Len(m)] \notin {118, 103, 112}

\* C1: a 'g' request for a ticker whose stored series loads and has at
\* least 32 points runs the pipeline to completion, sends exactly one
\* response (the image bytes) and the loop returns to accept.
C1_GraphServed ==
  (Request(TagG) /\ SeriesLoads /\ Len(StoredValues) >= MinLen)
    => /\ pc = "listening"
       /\ exc = "none"
       /\ Len(sent) = 1
       /\ sent[1].kind = "bytes"

\* C2: a failure raised while handling a 'g' or 'p' request is caught at
\* the handler boundary and answered with one error response; it never
\* ends the session loop.
C2_FailureCaught ==
  (handled /\ ~Undecodable(msg) /\ Ending(msg) \in {TagG, TagP} /\ exc # "none")
    => /\ pc # "crashed"
       /\ Len(sent) = 1

\* C3: a message that is no command (final byte not v, g or p, or fewer
\* than 2 bytes) is answered with a rejection response: never an unhandled
\* fault, never silence.
C3_Rejected ==
  (handled /\ Unrecognized(msg))
    => /\ pc = "listening"
       /\ exc = "none"
       /\ Len(sent) = 1

\* C4: a 'v' request is answered with exactly 'error' when the fetch fails
\* and 'success' when it succeeds, and in both cases the loop is back at
\* accept.
C4_ValidateAnswered ==
  Request(TagV)
    => /\ pc = "listening"
       /\ exc = "none"
       /\ fetch \in FetchResults
       /\ sent = <<EncodeText(IF fetch = "ok" THEN "success" ELSE "error")>>

C4_Witness ==
  /\ Request(TagV)
  /\ Len(Ticker(msg)) > 0
  /\ fetch = "fail"
  /\ sent = <<EncodeText("error")>>
  /\ pc = "listening"

\* The price the last test window gives: the series' last WINDOW_SIZE values
\* before its final two targets, scaled with the train bounds, predicted,
\* scaled back and rounded.
ClaimedPrice(v, w) ==
  LET n == Len(v)
      tr == SubSeq(v, 1, n - HOLDOUT)
      b == [fitted |-> TRUE, data_min |-> SeqMin(tr), data_max |-> SeqMax(tr)]
      win == MinMaxTransform(b, SubSeq(v, n - WINDOW_SIZE - 1, n - 2)).out
      p == predict([w |-> w], <<win>>)
  IN PyRound(MinMaxInverse(b, p).out[1])

\* C7: a 'p' request for a series of at least 32 points, with a saved model,
\* returns the price held at the highest valued position of the test-region
\* series, which is the prediction of the last test window.
C7_PriceOfLastTestWindow ==
  (Request(TagP) /\ SeriesLoads /\ Len(StoredValues) >= MinLen /\ modelFile.saved)
    => /\ exc = "none"
       /\ sent = <<Payload("utf8", "$", ClaimedPrice(StoredValues, modelFile.w))>>

\* ------------------------------------------------------------------------
\* Properties of the aligned series and of the scaler, per request
\* ------------------------------------------------------------------------
NStored == Len(StoredValues)

\* The bounds of the request's own train partition, taken from the stored
\* series.
TrainBounds ==
  LET tr == SubSeq(StoredValues, 1, NStored - HOLDOUT)
  IN [fitted |-> TRUE, data_min |-> SeqMin(tr), data_max |-> SeqMax(tr)]

\* The prediction, in price units, of the window starting at raw index k,
\* by the model the request trained and saved.
PredictionOfWindow(k) ==
  LET win == MinMaxTransform(TrainBounds, SubSeq(StoredValues, k + 1, k + WINDOW_SIZE)).out
  IN MinMaxInverse(TrainBounds, predict([w |-> modelFile.w], <<win>>)).out[1]

TrainStarts == 0..(NStored - HOLDOUT - WINDOW_SIZE - 2)
TestStarts == (NStored - HOLDOUT)..(NStored - WINDOW_SIZE - 2)

Aligned(plot, starts) ==
  /\ Len(plot) = NStored
  /\ \A j \in 0..(NStored - 1) :
       IF j - WINDOW_SIZE \in starts
       THEN plot[j + 1] = <<PredictionOfWindow(j - WINDOW_SIZE),
                            PredictionOfWindow(j - WINDOW_SIZE)>>
       ELSE plot[j + 1] = <<NaN, NaN>>

\* C6: in a 'g' request on a raw series of N >= 32 points graph_format
\* yields the two series the image shows, each of length N; position j
\* holds a value exactly when j = k + W for a window start k of the
\* partition (train 0..N-32, test N-20..N-12), and then it is the
\* inverse-scaled prediction of that window; every other position, N-1
\* included, is NaN, and no position is written by both.
C6_Alignment ==
  (Request(TagG) /\ SeriesLoads /\ NStored >= MinLen)
    => /\ Len(sent) = 1
       /\ sent[1].kind = "bytes"
       /\ Aligned(sent[1].train, TrainStarts)
       /\ Aligned(sent[1].test, TestStarts)
       /\ \A j \in 1..NStored :
            IsNaN(sent[1].train[j][1]) \/ IsNaN(sent[1].test[j][1])
       /\ IsNaN(sent[1].train[NStored][1])
       /\ IsNaN(sent[1].test[NStored][1])

\* C8: in every 'g' or 'p' request on a series of N >= 32 points, whatever
\* the earlier requests left in the process-wide scaler, the bounds the
\* request normalises its test partition with and inverts its predictions
\* with, which are those the scaler holds once the request has run, are
\* the bounds of that request's own train partition.
C8_TrainBoundsOnly ==
  (handled /\ ~Undecodable(msg) /\ Ending(msg) \in {TagG, TagP}
     /\ SeriesLoads /\ NStored >= MinLen)
    => scaler = TrainBounds

\* ------------------------------------------------------------------------
\* Properties of the handler body
\* ------------------------------------------------------------------------
NRaw == Len(dataset)

\* The handler stopped before it had a series to split.
LoadFailed ==
  /\ stage = "crashed"
  /\ pexc \in {"FileNotFoundError", "DataLoadError"}

\* C9: splitting a series of at most HOLDOUT points fails with
\* InsufficientData and returns no (train, test) pair.
C9_InsufficientData ==
  (stage \notin {"idle", "loaded"} /\ ~LoadFailed /\ NRaw <= HOLDOUT)
    => (stage = "crashed" /\ pexc = "InsufficientData")

\* ------------------------------------------------------------------------
\* to_sequences properties
\* ------------------------------------------------------------------------
\* C5: for N > W + 1, to_sequences returns N - W - 1 pairs; window i is
\* S[i], .., S[i+W-1] and target i is S[i+W]; S[N-1] is never a target.
C5_Windows ==
  (seqOut.done /\ Len(seqData) > seqW + 1)
    => /\ Len(seqOut.X) = Len(seqData) - seqW - 1
       /\ Len(seqOut.y) = Len(seqData) - seqW - 1
       /\ \A i \in 0..(Len(seqData) - seqW - 2) :
            /\ Len(seqOut.X[i + 1]) = seqW
            /\ \A k \in 1..seqW : seqOut.X[i + 1][k] = seqData[i + k]
            /\ seqOut.y[i + 1] = seqData[i + seqW + 1]

C5_Witness ==
  /\ seqOut.done
  /\ seqW = 2
  /\ seqData = <<0, 1, 2, 1, 0>>
  /\ seqOut.X = << <<0, 1>>, <<1, 2>> >>
  /\ seqOut.y = <<2, 1>>

\* C10: for N <= W + 1, to_sequences fails with WindowTooLarge.
C10_WindowTooLarge ==
  (seqOut.done /\ Len(seqData) <= seqW + 1) => seqOut.exc = "WindowTooLarge"

====
